---------------------------- MODULE Spec2Model ----------------------------
(***************************************************************************)
(* Model of the sorting-algorithm benchmark: the ten sorting strategies    *)
(* of src/sorting/*.py as operators over sequences of strings, and the     *)
(* benchmark harness of src/benchmark.py (discovery, loading, timing,      *)
(* runner, verifier, ranking, exit codes) as a state machine.              *)
(*                                                                         *)
(* A string is a sequence of code points (naturals); a Python list is a    *)
(* sequence.  Python indices are 0-based: At/Put translate them.           *)
(***************************************************************************)
EXTENDS Integers, Sequences, FiniteSets, TLC

VARIABLES
    \* ---- one call of a strategy (SortSpec) ----
    input,        \* the list handed to the strategy
    strategy,     \* the strategy applied to it ("none" before the call)
    outcome,      \* what the call produced: [kind, out]
    \* ---- the process environment of benchmark.py ----
    dirExists,    \* whether the directory "sorting" exists
    dirFiles,     \* the file names in it
    argAlgorithm, \* args.algorithm: a name, or None
    now,          \* the reading of time.perf_counter()
    heap,         \* the list objects: heap[ref] is a list's contents
    \* ---- main() ----
    pc,           \* the statement the program is at
    exitCode,     \* the process's exit status once pc = "exit" (-1 before)
    available_algorithms,
    data,         \* reference to the list read_file returned
    algorithms,
    saved,        \* the files write_file wrote: [filename, data]
    table,        \* the table console.print showed: [rows, summary]
    warnings,     \* verify_sorting's warnings: <<algorithm, reference>>
    \* ---- run_all_benchmarks() ----
    next,         \* how many names of algorithms the loop has taken
    results,
    failures,     \* the "Failed to benchmark" lines: algorithm names
    \* ---- benchmark_algorithm() ----
    algorithm, data_copy, sort_fn, start_time, end_time, sorted_data,
    task,         \* the progress task's completed count (-1: no task)
    \* ---- history (not program state) ----
    dataset,      \* the contents read_file returned
    steps,        \* the steps of the current benchmark_algorithm call
    sortTicks,    \* how long the current strategy invocation ran
    invocations   \* every strategy invocation: [algorithm, arg, seen]

-----------------------------------------------------------------------------
(* Python primitives *)

At(r, j) == r[j + 1]
Put(r, j, v) == [r EXCEPT ![j + 1] = v]
Swap(r, a, b) == [r EXCEPT ![a + 1] = r[b + 1], ![b + 1] = r[a + 1]]
Slice(r, a, b) == [k \in 1..(b - a) |-> r[a + k]]

\* s < t on str: code-point lexicographic order
StrLt(s, t) ==
    \E k \in 0..(Len(t) - 1) :
        /\ k <= Len(s)
        /\ \A m \in 1..k : s[m] = t[m]
        /\ (k = Len(s) \/ s[k + 1] < t[k + 1])
StrGt(s, t) == StrLt(t, s)
StrLe(s, t) == ~StrLt(t, s)

\* what a call produces: a returned list, or a raised exception
Returned(out) == [kind |-> "return", out |-> out]
Raised(exc) == [kind |-> exc, out |-> <<>>]

\* the built-in sorted() on a list of str: a stable ascending sort
RECURSIVE insort(_, _)
insort(acc, x) ==
    IF acc = <<>> THEN <<x>>
    ELSE IF StrLt(x, acc[Len(acc)])
         THEN Append(insort(SubSeq(acc, 1, Len(acc) - 1), x), acc[Len(acc)])
         ELSE Append(acc, x)
RECURSIVE sorted(_)
sorted(seq) ==
    IF seq = <<>> THEN <<>>
    ELSE insort(sorted(SubSeq(seq, 1, Len(seq) - 1)), seq[Len(seq)])

-----------------------------------------------------------------------------
(* sorting/bubble.py *)

RECURSIVE bubble_inner(_, _, _, _)
bubble_inner(result, j, stop, swapped) ==
    IF j >= stop THEN <<result, swapped>>
    ELSE IF StrGt(At(result, j), At(result, j + 1))
         THEN bubble_inner(Swap(result, j, j + 1), j + 1, stop, TRUE)
         ELSE bubble_inner(result, j + 1, stop, swapped)
RECURSIVE bubble_outer(_, _, _)
bubble_outer(result, i, n) ==
    IF i >= n THEN result
    ELSE LET p == bubble_inner(result, 0, n - i - 1, FALSE)
         IN  IF ~p[2] THEN p[1] ELSE bubble_outer(p[1], i + 1, n)
bubble_sort(items) == Returned(bubble_outer(items, 0, Len(items)))

-----------------------------------------------------------------------------
(* sorting/insertion.py *)

\* the while loop: move the elements greater than key one position ahead
RECURSIVE shift_up(_, _, _)
shift_up(result, j, key) ==
    IF j >= 0 /\ StrGt(At(result, j), key)
    THEN shift_up(Put(result, j + 1, At(result, j)), j - 1, key)
    ELSE Put(result, j + 1, key)
RECURSIVE insertion_loop(_, _, _)
insertion_loop(result, i, n) ==
    IF i >= n THEN result
    ELSE insertion_loop(shift_up(result, i - 1, At(result, i)), i + 1, n)
insertion_sort(items) == Returned(insertion_loop(items, 1, Len(items)))

-----------------------------------------------------------------------------
(* sorting/selection.py *)

RECURSIVE selection_min(_, _, _, _)
selection_min(result, j, n, min_idx) ==
    IF j >= n THEN min_idx
    ELSE selection_min(result, j + 1, n,
                       IF StrLt(At(result, j), At(result, min_idx)) THEN j ELSE min_idx)
RECURSIVE selection_loop(_, _, _)
selection_loop(result, i, n) ==
    IF i >= n THEN result
    ELSE selection_loop(Swap(result, i, selection_min(result, i + 1, n, i)), i + 1, n)
selection_sort(items) == Returned(selection_loop(items, 0, Len(items)))

-----------------------------------------------------------------------------
(* sorting/shell.py *)

gaps == <<1, 4, 10, 23, 57, 132, 301, 701, 1750>>

\* the largest gap that is smaller than n
RECURSIVE shell_first_gap(_, _)
shell_first_gap(gap_index, n) ==
    IF gap_index >= 0 /\ At(gaps, gap_index) >= n
    THEN shell_first_gap(gap_index - 1, n)
    ELSE gap_index
RECURSIVE shell_shift(_, _, _, _)
shell_shift(result, j, temp, gap) ==
    IF j >= gap /\ StrGt(At(result, j - gap), temp)
    THEN shell_shift(Put(result, j, At(result, j - gap)), j - gap, temp, gap)
    ELSE Put(result, j, temp)
RECURSIVE shell_pass(_, _, _, _)
shell_pass(result, i, n, gap) ==
    IF i >= n THEN result
    ELSE shell_pass(shell_shift(result, i, At(result, i), gap), i + 1, n, gap)
RECURSIVE shell_loop(_, _, _)
shell_loop(result, gap_index, n) ==
    IF gap_index < 0 THEN result
    ELSE shell_loop(shell_pass(result, At(gaps, gap_index), n, At(gaps, gap_index)),
                    gap_index - 1, n)
shell_sort(items) ==
    Returned(shell_loop(items, shell_first_gap(Len(gaps) - 1, Len(items)), Len(items)))

-----------------------------------------------------------------------------
(* sorting/heap.py *)

RECURSIVE heapify(_, _, _)
heapify(arr, n, i) ==
    LET left == 2 * i + 1
        right == 2 * i + 2
        l1 == IF left < n /\ StrGt(At(arr, left), At(arr, i)) THEN left ELSE i
        largest == IF right < n /\ StrGt(At(arr, right), At(arr, l1)) THEN right ELSE l1
    IN  IF largest # i THEN heapify(Swap(arr, i, largest), n, largest) ELSE arr
RECURSIVE heap_build(_, _, _)
heap_build(result, i, n) ==
    IF i < 0 THEN result ELSE heap_build(heapify(result, n, i), i - 1, n)
RECURSIVE heap_extract(_, _)
heap_extract(result, i) ==
    IF i <= 0 THEN result ELSE heap_extract(heapify(Swap(result, i, 0), i, 0), i - 1)
heap_sort(items) ==
    LET n == Len(items)
    IN  Returned(heap_extract(heap_build(items, (n \div 2) - 1, n), n - 1))

-----------------------------------------------------------------------------
(* sorting/merge.py *)

RECURSIVE merge_lists(_, _)
merge_lists(L, R) ==
    IF L = <<>> THEN R
    ELSE IF R = <<>> THEN L
    ELSE IF StrLe(L[1], R[1])
         THEN <<L[1]>> \o merge_lists(Tail(L), R)
         ELSE <<R[1]>> \o merge_lists(L, Tail(R))
RECURSIVE merge_rec(_)
merge_rec(result) ==
    IF Len(result) > 1
    THEN LET mid == Len(result) \div 2
         IN  merge_lists(merge_rec(Slice(result, 0, mid)),
                         merge_rec(Slice(result, mid, Len(result))))
    ELSE result
merge_sort(items) == Returned(merge_rec(items))

-----------------------------------------------------------------------------
(* sorting/quick.py: random.randint(low, high) is any index of low..high *)

RECURSIVE partition_loop(_, _, _, _, _)
partition_loop(arr, j, high, pivot, i) ==
    IF j >= high THEN <<arr, i>>
    ELSE IF StrLe(At(arr, j), pivot)
         THEN partition_loop(Swap(arr, i + 1, j), j + 1, high, pivot, i + 1)
         ELSE partition_loop(arr, j + 1, high, pivot, i)
\* (mutant) line 77 is dropped: the pivot is not put in its place
partition_unplaced(arr, low, high, pivot_idx) ==
    LET a1 == Swap(arr, pivot_idx, high)
        p == partition_loop(a1, low, high, At(a1, high), low - 1)
    IN  <<p[1], p[2] + 1>>
\* <<the list after partitioning, the pivot index>> for the drawn pivot_idx
partition(arr, low, high, pivot_idx) ==
    LET a1 == Swap(arr, pivot_idx, high)
        p == partition_loop(a1, low, high, At(a1, high), low - 1)
    IN  <<Swap(p[1], p[2] + 1, high), p[2] + 1>>
\* the lists _quicksort can leave behind, over every draw of the pivots
RECURSIVE quicksort(_, _, _)
quicksort(arr, low, high) ==
    IF low < high
    THEN UNION { LET p == partition(arr, low, high, pivot_idx)
                 IN  UNION { quicksort(a2, p[2] + 1, high) :
                                 a2 \in quicksort(p[1], low, p[2] - 1) } :
                 pivot_idx \in low..high }
    ELSE {arr}
quick_sort(items) == { Returned(r) : r \in quicksort(items, 0, Len(items) - 1) }

-----------------------------------------------------------------------------
(* sorting/counting.py *)

counting_key(s) == IF s # <<>> THEN <<s[1]>> ELSE <<>>
\* the dict's keys, in insertion order
RECURSIVE counting_keys(_)
counting_keys(result) ==
    IF result = <<>> THEN <<>>
    ELSE LET before == counting_keys(SubSeq(result, 1, Len(result) - 1))
             key == counting_key(result[Len(result)])
         IN  IF \E k \in 1..Len(before) : before[k] = key
             THEN before ELSE Append(before, key)
counting_bucket(result, key) == SelectSeq(result, LAMBDA s : counting_key(s) = key)
RECURSIVE counting_rebuild(_, _, _)
counting_rebuild(result, sorted_keys, k) ==
    IF k > Len(sorted_keys) THEN <<>>
    ELSE sorted(counting_bucket(result, sorted_keys[k]))
            \o counting_rebuild(result, sorted_keys, k + 1)
counting_sort(items) ==
    IF items = <<>> THEN Returned(items)
    ELSE Returned(counting_rebuild(items, sorted(counting_keys(items)), 1))

-----------------------------------------------------------------------------
(* sorting/bucket.py *)

\* str.isalpha() and str.lower() on one character, for the letters the
\* model's strings are written in: A-Z, a-z, U+00E9, U+0100/U+0101
IsAlpha(c) == c \in (65..90) \cup (97..122) \cup {233, 256, 257}
Lower(c) == IF c \in 65..90 THEN c + 32 ELSE IF c = 256 THEN 257 ELSE c

NumBuckets == 27
OrdA == 97

bucket_index(item) ==
    IF item # <<>> /\ IsAlpha(item[1]) THEN Lower(item[1]) - OrdA ELSE NumBuckets - 1
\* buckets[index] on a list of NumBuckets entries: a negative index counts
\* from the end, anything else out of range raises IndexError
BucketInRange(index) == index >= -NumBuckets /\ index < NumBuckets
BucketSlot(index) == IF index < 0 THEN index + NumBuckets ELSE index

RECURSIVE bucket_insertion_loop(_, _)
bucket_insertion_loop(arr, i) ==
    IF i >= Len(arr) THEN arr
    ELSE bucket_insertion_loop(shift_up(arr, i - 1, At(arr, i)), i + 1)
bucket_insertion_sort(arr) == bucket_insertion_loop(arr, 1)

bucket_items(result, b) ==
    SelectSeq(result, LAMBDA item : BucketSlot(bucket_index(item)) = b)
RECURSIVE bucket_concat(_, _)
bucket_concat(result, b) ==
    IF b >= NumBuckets THEN <<>>
    ELSE bucket_insertion_sort(bucket_items(result, b)) \o bucket_concat(result, b + 1)
bucket_sort(items) ==
    IF Len(items) <= 1 THEN Returned(items)
    ELSE IF \E k \in 1..Len(items) : ~BucketInRange(bucket_index(items[k]))
         THEN Raised("IndexError")
         ELSE Returned(bucket_concat(items, 0))

-----------------------------------------------------------------------------
(* sorting/radix.py *)

\* (mutant) count has twice the slots: code points up to 511 fit
CountSize_wide == 2 * 256
CountSize == 256
Space == 32

RECURSIVE radix_max_len(_, _)
radix_max_len(result, k) ==
    IF k > Len(result) THEN 0
    ELSE LET rest == radix_max_len(result, k + 1)
         IN  IF Len(result[k]) > rest THEN Len(result[k]) ELSE rest
ljust(s, width) ==
    IF Len(s) >= width THEN s ELSE s \o [k \in 1..(width - Len(s)) |-> Space]
\* ord(item[pos]) of the padded entry at list index i
radix_code(padded, i, pos) == At(At(padded, i)[1], pos)
\* count[] once every character is counted and the running sums are taken
radix_count(padded, pos) ==
    [c \in 0..(CountSize - 1) |->
        Cardinality({i \in 0..(Len(padded) - 1) : radix_code(padded, i, pos) <= c})]
RECURSIVE radix_place(_, _, _, _, _)
radix_place(padded, pos, i, count, output) ==
    IF i < 0 THEN output
    ELSE LET char_code == radix_code(padded, i, pos)
         IN  radix_place(padded, pos, i - 1,
                         [c \in 0..(CountSize - 1) |->
                             IF c = char_code THEN count[c] - 1 ELSE count[c]],
                         Put(output, count[char_code] - 1, At(padded, i)))
\* the passes from position pos down to 0: <<TRUE, padded>>, or <<FALSE, _>>
\* once a character has no slot in count[] (IndexError)
RECURSIVE radix_passes(_, _)
radix_passes(padded, pos) ==
    IF pos < 0 THEN <<TRUE, padded>>
    ELSE IF \E i \in 0..(Len(padded) - 1) : radix_code(padded, i, pos) >= CountSize
         THEN <<FALSE, padded>>
         ELSE radix_passes(
                  radix_place(padded, pos, Len(padded) - 1, radix_count(padded, pos),
                              [k \in 1..Len(padded) |-> <<>>]),
                  pos - 1)
radix_sort(items) ==
    LET max_len == radix_max_len(items, 1)
        padded == [k \in 1..Len(items) |-> <<ljust(items[k], max_len), k - 1>>]
        final == radix_passes(padded, max_len - 1)
    IN  IF ~final[1] THEN Raised("IndexError")
        ELSE Returned([k \in 1..Len(items) |-> At(items, final[2][k][2])])

-----------------------------------------------------------------------------
(* the shipped strategies, by module name *)

Shipped == {"bubble", "bucket", "counting", "heap", "insertion", "merge",
            "quick", "radix", "selection", "shell"}

\* every outcome sort(items) of strategy name can have
SortOutcomes(name, items) ==
    CASE name = "bubble" -> {bubble_sort(items)}
      [] name = "bucket" -> {bucket_sort(items)}
      [] name = "counting" -> {counting_sort(items)}
      [] name = "heap" -> {heap_sort(items)}
      [] name = "insertion" -> {insertion_sort(items)}
      [] name = "merge" -> {merge_sort(items)}
      [] name = "quick" -> quick_sort(items)
      [] name = "radix" -> {radix_sort(items)}
      [] name = "selection" -> {selection_sort(items)}
      [] name = "shell" -> {shell_sort(items)}

-----------------------------------------------------------------------------
(* The strategies as pure functions: one call of sort() on a drawn input *)

\* "", "a", "B", "ab", "1", "a<TAB>b", U+00E9, U+0100
Words == {<<>>, <<97>>, <<66>>, <<97, 98>>, <<49>>, <<97, 9, 98>>, <<233>>, <<256>>}
\* "a", "b", "B": the words of the longer lists
ShortWords == {<<97>>, <<98>>, <<66>>}
MaxLen == 3
MaxLongLen == 5

SeqsUpTo(S, n) == UNION { [1..k -> S] : k \in 0..n }
Inputs == SeqsUpTo(Words, MaxLen) \cup SeqsUpTo(ShortWords, MaxLongLen)

\* None where a name or a list is expected (the code's truth tests treat it
\* and the empty value alike)
None == <<>>

\* nothing printed by display_comparison_table
NoTable == [shown |-> "nothing", rows |-> <<>>, summary |-> <<>>]

sortVars == <<input, strategy, outcome>>
envVars == <<dirExists, dirFiles, argAlgorithm>>
mainVars == <<available_algorithms, data, algorithms, saved, table, warnings>>
loopVars == <<next, results, failures>>
benchVars == <<algorithm, data_copy, sort_fn, task, start_time, end_time, sorted_data>>
histVars == <<dataset, steps, sortTicks, invocations>>
vars == <<sortVars, envVars, now, heap, pc, exitCode, mainVars, loopVars, benchVars,
          histVars>>

\* benchmark_algorithm's locals outside a call
NoBench ==
    /\ algorithm = None /\ data_copy = 0 /\ sort_fn = None /\ task = -1
    /\ start_time = 0 /\ end_time = 0 /\ sorted_data = <<>>
\* the program before main() has run a statement
MainFresh ==
    /\ now = 0 /\ heap = <<>> /\ exitCode = -1
    /\ available_algorithms = <<>> /\ data = 0 /\ algorithms = <<>>
    /\ saved = <<>> /\ table = NoTable /\ warnings = <<>>
    /\ next = 0 /\ results = <<>> /\ failures = <<>>
    /\ NoBench
    /\ dataset = <<>> /\ steps = <<>> /\ sortTicks = 0 /\ invocations = <<>>

SortInit ==
    /\ input \in Inputs
    /\ strategy = "none"
    /\ outcome = Returned(<<>>)
    /\ pc = "idle" /\ dirExists = FALSE /\ dirFiles = {} /\ argAlgorithm = None
    /\ MainFresh

ApplySort(name) ==
    /\ strategy = "none"
    /\ strategy' = name
    /\ outcome' \in SortOutcomes(name, input)
    /\ UNCHANGED <<input, envVars, now, heap, pc, exitCode, mainVars, loopVars,
                   benchVars, histVars>>

SortNext == \E name \in Shipped : ApplySort(name)

SortSpec == SortInit /\ [][SortNext]_vars

\* out[i] <= out[j] for all positions i < j
NonDecreasing(out) == \A i, j \in 1..Len(out) : i < j => StrLe(out[i], out[j])
Occurrences(seq, x) == Cardinality({k \in 1..Len(seq) : seq[k] = x})
SameMultiset(a, b) ==
    /\ Len(a) = Len(b)
    /\ \A k \in 1..Len(a) : Occurrences(a, a[k]) = Occurrences(b, a[k])

\* C1: every shipped strategy's output is non-decreasing under the
\* code-point lexicographic order, for every input (stated as the claim
\* has it; bucket and radix break it).
C1_OutputNonDecreasing ==
    (strategy # "none" /\ outcome.kind = "return") => NonDecreasing(outcome.out)

\* C2: every shipped strategy returns, for every input, a list with the
\* same multiset of elements as the input (stated as the claim has it; a
\* strategy that raises returns nothing).
C2_OutputIsPermutation ==
    strategy # "none" => outcome.kind = "return" /\ SameMultiset(outcome.out, input)

\* what does hold of C1/C2: a list that is returned is a permutation of the
\* input, and the comparison sorts and counting always return a sorted one
ReturnedIsPermutation ==
    (strategy # "none" /\ outcome.kind = "return") => SameMultiset(outcome.out, input)
ComparisonSortsSorted ==
    (strategy \in Shipped \ {"bucket", "radix"}) =>
        outcome.kind = "return" /\ NonDecreasing(outcome.out)

-----------------------------------------------------------------------------
(* benchmark.py: the environment the program runs in *)

\* names, as str
Name == [bubble   |-> <<98, 117, 98, 98, 108, 101>>,
         bucket   |-> <<98, 117, 99, 107, 101, 116>>,
         radix    |-> <<114, 97, 100, 105, 120>>,
         mutator  |-> <<109, 117, 116, 97, 116, 111, 114>>,
         nosort   |-> <<110, 111, 115, 111, 114, 116>>,
         nodeps   |-> <<110, 111, 100, 101, 112, 115>>,
         ghost    |-> <<103, 104, 111, 115, 116>>,
         helper   |-> <<95, 104, 101, 108, 112, 101, 114>>,
         init     |-> <<95, 95, 105, 110, 105, 116, 95, 95>>,
         fastest  |-> <<102, 97, 115, 116, 101, 115, 116>>,
         infile   |-> <<105, 110, 46, 116, 120, 116>>]
DotPy == <<46, 112, 121>>
Underscore == <<95>>
InitPy == Name.init \o DotPy

\* the files a "sorting" directory of the model may hold: three shipped
\* strategies; mutator.py, whose sort() sorts its argument in place and
\* returns it; nosort.py, a module with no sort; nodeps.py, whose import
\* raises ImportError; two private files
FileUniverse ==
    { Name[m] \o DotPy : m \in {"bubble", "bucket", "radix", "mutator", "nosort",
                                "nodeps", "helper", "init"} }
\* the values of -a the model runs with (None: the option is absent)
Requests == {None, Name.bubble, Name.nosort, Name.ghost}
\* the contents of the input file, line by line ("\n" is 10):
\* empty; "a","B"; "a", U+0100
FileContents ==
    { <<>>,
      <<(<<97, 10>>), (<<66, 10>>)>>,
      <<(<<97, 10>>), (<<256, 10>>)>> }
MaxFiles == 3
MaxElapsed == 1

StartsWith(s, prefix) ==
    Len(s) >= Len(prefix) /\ SubSeq(s, 1, Len(prefix)) = prefix
EndsWith(s, suffix) ==
    Len(s) >= Len(suffix) /\ SubSeq(s, Len(s) - Len(suffix) + 1, Len(s)) = suffix
\* Path.stem of a file name with a one-dot suffix
Stem(name) ==
    LET dots == {k \in 2..Len(name) : name[k] = 46}
    IN  IF dots = {} THEN name
        ELSE SubSeq(name, 1, (CHOOSE k \in dots : \A m \in dots : m <= k) - 1)
\* str.strip(): without leading and trailing whitespace
IsSpace(c) == c \in {9, 10, 11, 12, 13, 32}
RECURSIVE lstrip(_)
lstrip(s) == IF s # <<>> /\ IsSpace(s[1]) THEN lstrip(Tail(s)) ELSE s
RECURSIVE rstrip(_)
rstrip(s) ==
    IF s # <<>> /\ IsSpace(s[Len(s)]) THEN rstrip(SubSeq(s, 1, Len(s) - 1)) ELSE s
strip(s) == lstrip(rstrip(s))

Perms(S) ==
    { f \in [1..Cardinality(S) -> S] : \A i, j \in 1..Cardinality(S) : i # j => f[i] # f[j] }
Range(f) == { f[k] : k \in DOMAIN f }

\* (mutant) data_copy = data: the same list object
list_alias(h, ref) == <<h, ref>>
\* list.copy(): a new list object with the same contents; <<heap, reference>>
list_copy(h, ref) == <<Append(h, h[ref]), Len(h) + 1>>

-----------------------------------------------------------------------------
(* benchmark.py: read_file, get_available_algorithms, load_algorithm *)

read_file(lines) == [k \in 1..Len(lines) |-> strip(lines[k])]

\* the loop over sorting_dir.glob("*.py"), which yields the files in the
\* order listing
RECURSIVE get_available_algorithms(_)
get_available_algorithms(listing) ==
    IF listing = <<>> THEN <<>>
    ELSE LET file == listing[Len(listing)]
             before == get_available_algorithms(SubSeq(listing, 1, Len(listing) - 1))
         IN  IF file # InitPy /\ ~StartsWith(file, Underscore)
             THEN Append(before, Stem(file))
             ELSE before
\* the files glob("*.py") yields
Glob(files) == { f \in files : EndsWith(f, DotPy) }

\* importlib.import_module("sorting." + name), then module.sort
ModuleKind(name) ==
    CASE name \in {Name.bubble, Name.bucket, Name.radix} -> "shipped"
      [] name = Name.mutator -> "mutator"
      [] name = Name.nosort -> "AttributeError"
      [] OTHER -> "ImportError"
load_algorithm(name) ==
    IF ModuleKind(name) \in {"ImportError", "AttributeError"}
    THEN [kind |-> "SystemExit", fn |-> None]
    ELSE [kind |-> "return", fn |-> name]

ShippedName(name) ==
    CHOOSE m \in {"bubble", "bucket", "radix"} : Name[m] = name
\* sort_fn(data_copy): every <<outcome, heap after the call>>
Invoke(fn, h, ref) ==
    IF ModuleKind(fn) = "mutator"
    THEN { <<Returned(sorted(h[ref])), [h EXCEPT ![ref] = sorted(h[ref])]>> }
    ELSE { <<o, h>> : o \in SortOutcomes(ShippedName(fn), h[ref]) }

-----------------------------------------------------------------------------
(* benchmark.py: main(), up to the benchmarks *)

Init ==
    /\ pc = "main"
    /\ dirExists \in BOOLEAN
    /\ dirFiles \in { F \in SUBSET FileUniverse : Cardinality(F) <= MaxFiles }
    /\ (~dirExists => dirFiles = {})
    /\ argAlgorithm \in Requests
    /\ MainFresh
    /\ input = <<>> /\ strategy = "none" /\ outcome = Returned(<<>>)

\* sys.exit(1), which neither "except Exception" catches
SysExit ==
    /\ pc' = "exit"
    /\ exitCode' = 1

\* lines 301, 103-114
GetAvailableAlgorithms ==
    /\ pc = "main"
    /\ \/ /\ ~dirExists
          /\ SysExit
          /\ UNCHANGED available_algorithms
       \/ /\ dirExists
          /\ \E listing \in Perms(Glob(dirFiles)) :
                available_algorithms' = get_available_algorithms(listing)
          /\ pc' = "check"
          /\ UNCHANGED exitCode
    /\ UNCHANGED <<sortVars, envVars, now, heap, data, algorithms, saved, table,
                   warnings, loopVars, benchVars, histVars>>

\* lines 303-315
CheckAlgorithms ==
    /\ pc = "check"
    /\ IF \/ available_algorithms = <<>>
          \/ argAlgorithm # None /\ argAlgorithm \notin Range(available_algorithms)
       THEN SysExit
       ELSE pc' = "read" /\ UNCHANGED exitCode
    /\ UNCHANGED <<sortVars, envVars, now, heap, mainVars, loopVars, benchVars,
                   histVars>>

\* lines 319, 61-69: the file is missing or unreadable, or holds lines
ReadFile ==
    /\ pc = "read"
    /\ \/ /\ SysExit
          /\ UNCHANGED <<heap, data, dataset>>
       \/ /\ \E lines \in FileContents :
                /\ heap' = <<read_file(lines)>>
                /\ dataset' = read_file(lines)
          /\ data' = 1
          /\ pc' = "select"
          /\ UNCHANGED exitCode
    /\ UNCHANGED <<sortVars, envVars, now, available_algorithms, algorithms, saved,
                   table, warnings, loopVars, benchVars, steps, sortTicks, invocations>>

\* lines 325-332, 194: the names to run; run_all_benchmarks starts
SelectAlgorithms ==
    /\ pc = "select"
    /\ algorithms' = IF argAlgorithm # None THEN <<argAlgorithm>>
                     ELSE available_algorithms
    /\ results' = <<>>
    /\ pc' = "loop"
    /\ UNCHANGED <<sortVars, envVars, now, heap, exitCode, available_algorithms, data,
                   saved, table, warnings, next, failures, benchVars, histVars>>

-----------------------------------------------------------------------------
(* benchmark.py: run_all_benchmarks() and benchmark_algorithm() *)

\* a step of benchmark_algorithm that is not the strategy's call takes time
Step(name) ==
    /\ steps' = Append(steps, name)
    /\ now' = now + 1
\* reading the clock takes none
ClockRead(name) ==
    /\ steps' = Append(steps, name)
    /\ UNCHANGED now

\* line 196: the next name, or line 208 after the last one
NextAlgorithm ==
    /\ pc = "loop"
    /\ \/ /\ next < Len(algorithms)
          /\ algorithm' = algorithms[next + 1]
          /\ next' = next + 1
          /\ pc' = "copy"
       \/ /\ next >= Len(algorithms)
          /\ algorithm' = None
          /\ pc' = "verify"
          /\ UNCHANGED next
    /\ data_copy' = 0 /\ sort_fn' = None /\ task' = -1
    /\ start_time' = 0 /\ end_time' = 0 /\ sorted_data' = <<>>
    /\ steps' = <<>> /\ sortTicks' = 0
    /\ UNCHANGED <<sortVars, envVars, now, heap, exitCode, mainVars, results,
                   failures, dataset, invocations>>

\* line 156
CopyData ==
    /\ pc = "copy"
    /\ heap' = list_copy(heap, data)[1]
    /\ data_copy' = list_copy(heap, data)[2]
    /\ Step("copy")
    /\ pc' = "load"
    /\ UNCHANGED <<sortVars, envVars, exitCode, mainVars, loopVars, algorithm,
                   sort_fn, task, start_time, end_time, sorted_data, dataset,
                   sortTicks, invocations>>

\* lines 158, 127-139
LoadAlgorithm ==
    /\ pc = "load"
    /\ Step("load")
    /\ IF load_algorithm(algorithm).kind = "SystemExit"
       THEN SysExit /\ UNCHANGED sort_fn
       ELSE /\ sort_fn' = load_algorithm(algorithm).fn
            /\ pc' = "progress"
            /\ UNCHANGED exitCode
    /\ UNCHANGED <<sortVars, envVars, heap, mainVars, loopVars, algorithm, data_copy,
                   task, start_time, end_time, sorted_data, dataset, sortTicks,
                   invocations>>

\* lines 160-169
AddTask ==
    /\ pc = "progress"
    /\ task' = 0
    /\ Step("add_task")
    /\ pc' = "start"
    /\ UNCHANGED <<sortVars, envVars, heap, exitCode, mainVars, loopVars, algorithm,
                   data_copy, sort_fn, start_time, end_time, sorted_data, dataset,
                   sortTicks, invocations>>

\* line 172
StartTimer ==
    /\ pc = "start"
    /\ start_time' = now
    /\ ClockRead("start")
    /\ pc' = "invoke"
    /\ UNCHANGED <<sortVars, envVars, heap, exitCode, mainVars, loopVars, algorithm,
                   data_copy, sort_fn, task, end_time, sorted_data, dataset,
                   sortTicks, invocations>>

\* (mutant) the handler leaves the loop
CatchException_break ==
    /\ failures' = Append(failures, algorithm)
    /\ pc' = "verify"
\* lines 203-206: the failure is printed and the loop goes on
CatchException ==
    /\ failures' = Append(failures, algorithm)
    /\ pc' = "loop"

\* line 173; a raised exception leaves the with block and is caught at
\* lines 203-206
InvokeSort ==
    /\ pc = "invoke"
    /\ \E d \in 0..MaxElapsed, r \in Invoke(sort_fn, heap, data_copy) :
          /\ now' = now + d
          /\ sortTicks' = d
          /\ heap' = r[2]
          /\ IF r[1].kind = "return"
             THEN /\ sorted_data' = r[1].out
                  /\ pc' = "stop"
                  /\ UNCHANGED failures
             ELSE CatchException /\ UNCHANGED sorted_data
    /\ steps' = Append(steps, "invoke")
    /\ invocations' = Append(invocations,
            [algorithm |-> algorithm, arg |-> data_copy, seen |-> heap[data_copy]])
    /\ UNCHANGED <<sortVars, envVars, exitCode, mainVars, next, results, algorithm,
                   data_copy, sort_fn, task, start_time, end_time, dataset>>

\* line 174
StopTimer ==
    /\ pc = "stop"
    /\ end_time' = now
    /\ ClockRead("stop")
    /\ pc' = "update"
    /\ UNCHANGED <<sortVars, envVars, heap, exitCode, mainVars, loopVars, algorithm,
                   data_copy, sort_fn, task, start_time, sorted_data, dataset,
                   sortTicks, invocations>>

\* line 176
UpdateProgress ==
    /\ pc = "update"
    /\ task' = 1
    /\ Step("update")
    /\ pc' = "return"
    /\ UNCHANGED <<sortVars, envVars, heap, exitCode, mainVars, loopVars, algorithm,
                   data_copy, sort_fn, start_time, end_time, sorted_data, dataset,
                   sortTicks, invocations>>

\* (mutant) the clock is read again once the progress bar is updated
BenchmarkResult_late ==
    [algorithm |-> algorithm, time |-> now - start_time,
     sorted_data |-> sorted_data]
\* lines 178-180
BenchmarkResult ==
    [algorithm |-> algorithm, time |-> end_time - start_time,
     sorted_data |-> sorted_data]
\* lines 178-180, 199
ReturnResult ==
    /\ pc = "return"
    /\ results' = Append(results, BenchmarkResult)
    /\ steps' = Append(steps, "result")
    /\ pc' = "loop"
    /\ UNCHANGED <<sortVars, envVars, now, heap, exitCode, mainVars, next, failures,
                   benchVars, dataset, sortTicks, invocations>>

-----------------------------------------------------------------------------
(* benchmark.py: verify_sorting(), write_file(), display_comparison_table() *)

\* (mutant) each result is compared with the one before it
RECURSIVE verify_loop_prev(_, _)
verify_loop_prev(res, k) ==
    IF k > Len(res) THEN <<>>
    ELSE (IF res[k].sorted_data # res[k - 1].sorted_data
          THEN << <<res[k].algorithm, res[1].algorithm>> >>
          ELSE <<>>) \o verify_loop_prev(res, k + 1)
\* lines 272-281: the warnings printed, <<algorithm, reference algorithm>>
RECURSIVE verify_loop(_, _)
verify_loop(res, k) ==
    IF k > Len(res) THEN <<>>
    ELSE (IF res[k].sorted_data # res[1].sorted_data
          THEN << <<res[k].algorithm, res[1].algorithm>> >>
          ELSE <<>>) \o verify_loop(res, k + 1)
verify_sorting(res) == IF Len(res) < 2 THEN <<>> ELSE verify_loop(res, 2)

\* (mutant) a sort that is not stable: a result goes before those of equal time
RECURSIVE insort_time_unstable(_, _)
insort_time_unstable(acc, x) ==
    IF acc = <<>> THEN <<x>>
    ELSE IF x.time <= acc[Len(acc)].time
         THEN Append(insort_time_unstable(SubSeq(acc, 1, Len(acc) - 1), x), acc[Len(acc)])
         ELSE Append(acc, x)
\* sorted(results, key=lambda x: x["time"]): stable
RECURSIVE insort_time(_, _)
insort_time(acc, x) ==
    IF acc = <<>> THEN <<x>>
    ELSE IF x.time < acc[Len(acc)].time
         THEN Append(insort_time(SubSeq(acc, 1, Len(acc) - 1), x), acc[Len(acc)])
         ELSE Append(acc, x)
RECURSIVE sorted_by_time(_)
sorted_by_time(res) ==
    IF res = <<>> THEN <<>>
    ELSE insort_time(sorted_by_time(SubSeq(res, 1, Len(res) - 1)), res[Len(res)])

\* min(results, key=lambda x: x["time"]): the first of the smallest
min_by_time(res) ==
    res[CHOOSE k \in 1..Len(res) :
            /\ \A m \in 1..Len(res) : res[k].time <= res[m].time
            /\ \A m \in 1..(k - 1) : res[m].time > res[k].time]

RECURSIVE Sum(_)
Sum(seq) == IF seq = <<>> THEN 0 ELSE seq[1] + Sum(Tail(seq))
\* sorted() on numbers
RECURSIVE insort_num(_, _)
insort_num(acc, x) ==
    IF acc = <<>> THEN <<x>>
    ELSE IF x < acc[Len(acc)]
         THEN Append(insort_num(SubSeq(acc, 1, Len(acc) - 1), x), acc[Len(acc)])
         ELSE Append(acc, x)
RECURSIVE sorted_num(_)
sorted_num(seq) ==
    IF seq = <<>> THEN <<>>
    ELSE insort_num(sorted_num(SubSeq(seq, 1, Len(seq) - 1)), seq[Len(seq)])
\* statistics.mean and statistics.median, as fractions <<numerator, denominator>>
mean(times) == <<Sum(times), Len(times)>>
median(times) ==
    LET d == sorted_num(times)
        n == Len(d)
    IN  IF n % 2 = 1 THEN <<At(d, n \div 2), 1>>
        ELSE <<At(d, (n \div 2) - 1) + At(d, n \div 2), 2>>

\* line 249 and the ".2f" of line 250: the ratio in hundredths, rounded
Ratio100(time, fastest) == (200 * time + fastest) \div (2 * fastest)
\* lines 238-255: the row of sorted_results[i]
TableRow(sorted_results, i) ==
    LET result == At(sorted_results, i)
    IN  [algorithm |-> result.algorithm,
         time |-> result.time,
         performance |->
            IF i = 0 THEN [label |-> "Fastest", ratio |-> 0]
            ELSE IF i = Len(sorted_results) - 1 THEN [label |-> "Slowest", ratio |-> 0]
            ELSE [label |-> "x slower",
                  ratio |-> Ratio100(result.time, At(sorted_results, 0).time)]]
\* line 249 divides by zero on a row between the first and the last
RatioRaises(sorted_results) ==
    Len(sorted_results) >= 3 /\ At(sorted_results, 0).time = 0
\* lines 218-262: what console.print shows, given that no row raised
display_comparison_table(res) ==
    IF res = <<>> THEN [shown |-> "No results to display", rows |-> <<>>, summary |-> <<>>]
    ELSE LET sorted_results == sorted_by_time(res)
             times == [k \in 1..Len(res) |-> res[k].time]
         IN  [shown |-> "table",
              rows |-> [k \in 1..Len(res) |-> TableRow(sorted_results, k - 1)],
              summary |-> <<mean(times), median(times)>>]

\* line 335
VerifySorting ==
    /\ pc = "verify"
    /\ warnings' = verify_sorting(results)
    /\ pc' = "save"
    /\ UNCHANGED <<sortVars, envVars, now, heap, exitCode, available_algorithms, data,
                   algorithms, saved, table, loopVars, benchVars, histVars>>

\* lines 338-348, 80-93, for either value of args.output
SaveOutput ==
    /\ pc = "save"
    /\ \E output \in BOOLEAN :
          IF output /\ results # <<>>
          THEN IF argAlgorithm # None
               THEN saved' = << [filename |-> argAlgorithm \o Underscore \o Name.infile,
                                 data |-> results[1].sorted_data] >>
               ELSE saved' = << [filename |-> Name.fastest \o Underscore \o Name.infile,
                                 data |-> min_by_time(results).sorted_data] >>
          ELSE UNCHANGED saved
    /\ pc' = "display"
    /\ UNCHANGED <<sortVars, envVars, now, heap, exitCode, available_algorithms, data,
                   algorithms, table, warnings, loopVars, benchVars, histVars>>

\* lines 351-353; line 249's ZeroDivisionError leaves main()
DisplayComparison ==
    /\ pc = "display"
    /\ IF Len(algorithms) > 1
       THEN IF results # <<>> /\ RatioRaises(sorted_by_time(results))
            THEN pc' = "unexpected" /\ UNCHANGED table
            ELSE pc' = "end" /\ table' = display_comparison_table(results)
       ELSE pc' = "end" /\ UNCHANGED table
    /\ UNCHANGED <<sortVars, envVars, now, heap, exitCode, available_algorithms, data,
                   algorithms, saved, warnings, loopVars, benchVars, histVars>>

\* main() returns: the process ends with status 0
MainReturns ==
    /\ pc = "end"
    /\ pc' = "exit"
    /\ exitCode' = 0
    /\ UNCHANGED <<sortVars, envVars, now, heap, mainVars, loopVars, benchVars,
                   histVars>>

\* lines 362-364: an Exception out of main()
UnexpectedError ==
    /\ pc = "unexpected"
    /\ pc' = "exit"
    /\ exitCode' = 1
    /\ UNCHANGED <<sortVars, envVars, now, heap, mainVars, loopVars, benchVars,
                   histVars>>

Next ==
    \/ GetAvailableAlgorithms
    \/ CheckAlgorithms
    \/ ReadFile
    \/ SelectAlgorithms
    \/ NextAlgorithm
    \/ CopyData
    \/ LoadAlgorithm
    \/ AddTask
    \/ StartTimer
    \/ InvokeSort
    \/ StopTimer
    \/ UpdateProgress
    \/ ReturnResult
    \/ VerifySorting
    \/ SaveOutput
    \/ DisplayComparison
    \/ MainReturns
    \/ UnexpectedError

Spec == Init /\ [][Next]_vars

-----------------------------------------------------------------------------
(* Properties of the benchmark program *)

IsPrefix(s, t) == Len(s) <= Len(t) /\ SubSeq(t, 1, Len(s)) = s
AlgorithmsOf(res) == [k \in 1..Len(res) |-> res[k].algorithm]
Loadable(name) == load_algorithm(name).kind = "return"
\* whether the strategy of a loadable name raises on the dataset
StrategyRaises(name) == \E r \in Invoke(name, <<dataset>>, 1) : r[1].kind # "return"
\* the names run_all_benchmarks has taken so far
Attempted == SubSeq(algorithms, 1, next)
\* run_all_benchmarks has returned
RunReturned ==
    pc \in {"verify", "save", "display", "end", "unexpected"}
        \/ (pc = "exit" /\ exitCode = 0)

\* C3: when every requested name loads, the runner goes through all of them
\* whichever strategies raise: the results are those of the names whose
\* strategy does not raise, one each, in request order, and the raising
\* names have a failure line and no result.
C3_RaisingStrategiesIsolated ==
    (pc = "loop" \/ RunReturned) =>
        LET raising == { n \in Range(Attempted) : StrategyRaises(n) }
        IN  /\ AlgorithmsOf(results) = SelectSeq(Attempted, LAMBDA n : n \notin raising)
            /\ failures = SelectSeq(Attempted, LAMBDA n : n \in raising)
            /\ (RunReturned => next = Len(algorithms))
\* three names, the middle one raising: results for the first and the third
C3_Witness ==
    /\ pc = "verify"
    /\ Len(algorithms) = 3
    /\ failures = <<algorithms[2]>>
    /\ AlgorithmsOf(results) = <<algorithms[1], algorithms[3]>>

\* C4: a name whose module fails to load is reported and skipped: once the
\* program has ended, every requested name was taken and every name that
\* loads and does not raise has its result (stated as the claim has it;
\* load_algorithm's sys.exit(1) ends the run instead).
C4_LoadFailureIsolated ==
    (pc = "exit" /\ algorithms # <<>>) =>
        /\ next = Len(algorithms)
        /\ \A k \in 1..Len(algorithms) :
              (Loadable(algorithms[k]) /\ ~StrategyRaises(algorithms[k]))
                  => algorithms[k] \in Range(AlgorithmsOf(results))

\* output sequences differ: in length, or in some element
Differs(a, b) == Len(a) # Len(b) \/ \E i \in 1..Len(a) : a[i] # b[i]
AfterVerify ==
    pc \in {"save", "display", "end", "unexpected"} \/ (pc = "exit" /\ exitCode = 0)
WarningsExact ==
    /\ \A k \in 2..Len(results) :
          (<<results[k].algorithm, results[1].algorithm>> \in Range(warnings))
              <=> Differs(results[k].sorted_data, results[1].sorted_data)
    /\ \A w \in Range(warnings) :
          \E k \in 2..Len(results) : w = <<results[k].algorithm, results[1].algorithm>>
    /\ \A i, j \in 1..Len(warnings) : i # j => warnings[i] # warnings[j]
    /\ (Len(results) < 2 => warnings = <<>>)
\* C5: after verify_sorting there is a warning for a later result exactly
\* when its output differs from the first result's, naming both; none with
\* fewer than two results; and verify_sorting goes on to the next statement
\* of main() with the results as they were.
C5_VerifierWarnings ==
    /\ [](AfterVerify => WarningsExact)
    /\ [][pc = "verify" => (pc' = "save" /\ results' = results)]_vars
\* three results, the second differing from the reference, the third not
C5_Witness ==
    /\ pc = "save"
    /\ Len(results) = 3
    /\ warnings = << <<results[2].algorithm, results[1].algorithm>> >>
    /\ results[3].sorted_data = results[1].sorted_data

\* C6: the dataset the runner holds never changes, and every strategy is
\* called on a list object of its own whose contents are the dataset's.
C6_DatasetIsolated ==
    /\ (data # 0 => heap[data] = dataset)
    /\ \A k \in 1..Len(invocations) :
          /\ invocations[k].seen = dataset
          /\ invocations[k].arg # data
          /\ \A j \in 1..(k - 1) : invocations[j].arg # invocations[k].arg
\* a strategy has sorted its argument in place and another ran after it
C6_Witness ==
    /\ Len(invocations) >= 2
    /\ invocations[1].algorithm = Name.mutator
    /\ heap[invocations[1].arg] # dataset

FullSteps == <<"copy", "load", "add_task", "start", "invoke", "stop", "update", "result">>
\* C7: benchmark_algorithm's steps come in the order copy, load, (progress
\* set-up,) timer start, invocation, timer stop, progress update, result;
\* the clock moves between its two readings only by the invocation's
\* duration, and the reported time is the second reading minus the first.
C7_TimedWindow ==
    /\ IsPrefix(steps, FullSteps)
    /\ (pc = "invoke" => now = start_time)
    /\ (pc = "stop" => now - start_time = sortTicks)
    /\ (steps = FullSteps =>
            /\ results[Len(results)].time = end_time - start_time
            /\ results[Len(results)].time = sortTicks)
\* a finished call whose invocation took time
C7_Witness == steps = FullSteps /\ sortTicks > 0 /\ results[Len(results)].time > 0

\* the rows list every result once, by non-decreasing time, results of
\* equal time in the order they have in res
PositionIn(res, name) == CHOOSE k \in 1..Len(res) : res[k].algorithm = name
RankedRows(rows, res) ==
    /\ Len(rows) = Len(res)
    /\ \A k \in 1..Len(res) :
          Cardinality({i \in 1..Len(rows) :
              rows[i].algorithm = res[k].algorithm /\ rows[i].time = res[k].time}) = 1
    /\ \A i, j \in 1..Len(rows) : i < j =>
          /\ rows[i].time <= rows[j].time
          /\ (rows[i].time = rows[j].time =>
                 PositionIn(res, rows[i].algorithm) < PositionIn(res, rows[j].algorithm))
\* display_comparison_table(results) was called with results to show
DisplayCalled ==
    pc \in {"end", "unexpected"} /\ Len(algorithms) > 1 /\ results # <<>>
\* C8: the table display_comparison_table builds lists every result once,
\* by non-decreasing elapsed time, ties in request order (stated as the
\* claim has it; with three or more results and a fastest time of 0 the
\* call raises and shows no table).
C8_RankedTable ==
    DisplayCalled => table.shown = "table" /\ RankedRows(table.rows, results)
\* what does hold of C8: a table that is shown is ranked so
ShownTableRanked ==
    table.shown = "table" => RankedRows(table.rows, results)

\* the shared set-up succeeded: the directory held algorithms, the named
\* one was among them and the input file was read
SetupSucceeded == data # 0
\* C9: the run ends with status 1, no strategy having run, when the set-up
\* fails, and with status 0 when the set-up succeeds, also when algorithms
\* failed at load or at execution (stated as the claim has it; a failed load
\* ends the run with status 1).
C9_ExitCodes ==
    pc = "exit" =>
        /\ (~SetupSucceeded => exitCode = 1 /\ invocations = <<>>)
        /\ (SetupSucceeded => exitCode = 0)
\* what does hold of C9: a failed set-up ends the run with status 1 before
\* any strategy runs
SetupFailureExits ==
    (pc = "exit" /\ ~SetupSucceeded) => (exitCode = 1 /\ invocations = <<>>)

\* the candidate modules of the directory: the .py files that are not private
Candidates ==
    { Stem(f) : f \in { g \in dirFiles : EndsWith(g, DotPy) /\ g[1] # 95 } }
Discovered == dirExists /\ pc # "main"
\* C10: get_available_algorithms returns every candidate module once, no
\* private one, in sorted order whatever order the directory lists its
\* files in (stated as the claim has it; the list is in directory order).
C10_AvailableSorted ==
    Discovered =>
        /\ Range(available_algorithms) = Candidates
        /\ Len(available_algorithms) = Cardinality(Candidates)
        /\ \A i, j \in 1..Len(available_algorithms) :
              i < j => StrLt(available_algorithms[i], available_algorithms[j])
\* what does hold of C10: every candidate once, no private name
AvailableAreCandidates ==
    Discovered =>
        /\ Range(available_algorithms) = Candidates
        /\ Len(available_algorithms) = Cardinality(Candidates)

-----------------------------------------------------------------------------
(* Determinism of the strategies (sorting/*.py, verify_sorting) *)

\* the two results verify_sorting compares: a reference and one other
ResultPair(refName, refOut, name, out) ==
    << [algorithm |-> refName, sorted_data |-> refOut],
       [algorithm |-> name, sorted_data |-> out] >>
\* the strategies taken as results[0], the reference of verify_sorting: the
\* randomised one and a deterministic one
References == {"quick", "bubble"}

\* C11: the outcome of a strategy depends only on its input: every outcome
\* the strategy can have on the same input (for quick, over every sequence of
\* pivot draws) is the one observed, and two runs of a reference strategy and
\* of this one on the same input give verify_sorting the same warnings.
C11_OutputDeterministic ==
    strategy # "none" =>
        LET own == SortOutcomes(strategy, input)
        IN  /\ \A o \in own : o = outcome
            /\ \A ref \in References :
                  LET first == SortOutcomes(ref, input)
                  IN  \A r1, r2 \in first, o1, o2 \in own :
                         (r1.kind = "return" /\ o1.kind = "return") =>
                            /\ r2.kind = "return" /\ o2.kind = "return"
                            /\ verify_sorting(ResultPair(ref, r1.out, strategy, o1.out))
                                 = verify_sorting(ResultPair(ref, r2.out, strategy, o2.out))
\* quick has sorted a list of three or more different strings that was not in
\* order (three or more pivots could be drawn at the top call)
C11_Witness ==
    /\ strategy = "quick"
    /\ Len(input) >= 3
    /\ \A i, j \in 1..Len(input) : i # j => input[i] # input[j]
    /\ outcome.kind = "return"
    /\ outcome.out # input

-----------------------------------------------------------------------------
(* radix on characters outside the single-byte range (radix.py lines 36-40,
   benchmark.py lines 196-206) *)

\* some string of the list has a character with a code point above 255
HasWide(seq) == \E k \in 1..Len(seq) : \E i \in 1..Len(seq[k]) : seq[k][i] > 255
\* run_all_benchmarks is done with radix: it has taken the name and is back
\* at the head of the loop, or has returned
RadixDone == Name.radix \in Range(Attempted) /\ (pc = "loop" \/ RunReturned)

-----------------------------------------------------------------------------
(* display_comparison_table on a fastest time of 0 (benchmark.py lines 222-262) *)

\* the table has a row for every result and the rows of the mean and the median
FullTable(tbl, res) ==
    /\ tbl.shown = "table"
    /\ Len(tbl.rows) = Len(res)
    /\ tbl.summary = <<mean([k \in 1..Len(res) |-> res[k].time]),
                       median([k \in 1..Len(res) |-> res[k].time])>>

\* C13: called on a non-empty list of results with non-negative times,
\* display_comparison_table returns without raising, having shown a row for
\* every result and the mean and median rows, also when the fastest time is 0
\* (stated as the claim has it; line 249 divides by the fastest time).
C13_DisplayCompletes ==
    (DisplayCalled /\ \A k \in 1..Len(results) : results[k].time >= 0) =>
        pc = "end" /\ FullTable(table, results)
\* what does hold of C13: the call completes with the full table unless there
\* are three or more results and the fastest time is 0
DisplayCompletesOnPositive ==
    (DisplayCalled /\ ~RatioRaises(sorted_by_time(results))) =>
        pc = "end" /\ FullTable(table, results)

-----------------------------------------------------------------------------
(* The saved output and the table's first row (benchmark.py lines 337-348,
   222-242) *)

\* main() wrote the output of the fastest result: no -a, --output, results
SavedFastest == argAlgorithm = None /\ saved # <<>>
\* the result display_comparison_table puts in the row labelled Fastest
RankZero(res) == At(sorted_by_time(res), 0)

\* C14: the result whose output main() writes to fastest_<basename> is the
\* result display_comparison_table places at rank 0; among the results tied
\* on the minimum time, both are the earliest in request order; and a table
\* that is shown has that result in its first row, labelled Fastest.
C14_SavedIsRankZero ==
    SavedFastest =>
        LET fastest == min_by_time(results)
        IN  /\ saved[1].filename = Name.fastest \o Underscore \o Name.infile
            /\ saved[1].data = RankZero(results).sorted_data
            /\ fastest = RankZero(results)
            /\ \A k \in 1..Len(results) :
                  /\ fastest.time <= results[k].time
                  /\ (results[k].time = fastest.time =>
                         PositionIn(results, fastest.algorithm) <= k)
            /\ (table.shown = "table" =>
                   /\ table.rows[1].algorithm = fastest.algorithm
                   /\ table.rows[1].performance.label = "Fastest")
\* the first two results tie on the minimum time with different outputs; the
\* output was saved and the table shown
C14_Witness ==
    /\ pc = "end"
    /\ SavedFastest
    /\ table.shown = "table"
    /\ Len(results) >= 2
    /\ results[1].time = results[2].time
    /\ \A k \in 1..Len(results) : results[1].time <= results[k].time
    /\ results[1].sorted_data # results[2].sorted_data

====
